---- MODULE Spec2Model ----
(***************************************************************************)
(* A model of App.tsx of MyAndroidLLM: the streaming completion session    *)
(* (handleSendMessage and its token callback, stopGeneration), the engine  *)
(* session (loadModel, handleBackToModelSelection) and the model-metadata  *)
(* store (the load/save effects, checkDownloadedModels,                    *)
(* handleDownloadModel, deleteModel).                                      *)
(*                                                                         *)
(* Text is a sequence of one-character strings, so that String.includes,   *)
(* String.replace, the <think> regular expression and String.trim are      *)
(* computed character by character, as the JavaScript computes them.       *)
(***************************************************************************)
EXTENDS Naturals, Integers, Sequences, FiniteSets, TLC

\* ------------------------------------------------------------------ text

\* The two markers of the token callback (App.tsx 563, 566, 592).
OPEN == <<"<", "t", "h", "i", "n", "k", ">">>
CLOSE == <<"<", "/", "t", "h", "i", "n", "k", ">">>

\* The notice stopGeneration appends (App.tsx 428).
STOP_NOTICE ==
  <<"\n", "\n", "*", "G", "e", "n", "e", "r", "a", "t", "i", "o", "n", " ",
    "s", "t", "o", "p", "p", "e", "d", " ", "b", "y", " ", "u", "s", "e", "r", "*">>

\* What String.prototype.trim removes.
Whitespace == {" ", "\n", "\t"}

\* s with its first n characters dropped.
Drop(s, n) == SubSeq(s, n + 1, Len(s))

\* s with its first n characters only.
Take(s, n) == SubSeq(s, 1, n)

\* s starts with p; s ends with p (String.endsWith).
IsPrefix(p, s) == Len(p) <= Len(s) /\ Take(s, Len(p)) = p
IsSuffix(p, s) == Len(p) <= Len(s) /\ Drop(s, Len(s) - Len(p)) = p

\* Whether pat occurs in s at index i (1-based).
MatchAt(s, pat, i) ==
  /\ i >= 1
  /\ i + Len(pat) - 1 <= Len(s)
  /\ \A j \in 1..Len(pat) : s[i + j - 1] = pat[j]

\* String.indexOf(pat, from): the first index >= from where pat occurs, 0 if none.
IndexFrom(s, pat, from) ==
  LET hits == {i \in from..(Len(s) - Len(pat) + 1) : MatchAt(s, pat, i)}
  IN  IF hits = {} THEN 0 ELSE CHOOSE i \in hits : \A j \in hits : i <= j

IndexOf(s, pat) == IndexFrom(s, pat, 1)

\* String.includes(pat).
Includes(s, pat) == IndexOf(s, pat) > 0

\* String.replace(pat, ""), pat a string: the first occurrence only is removed.
RemoveFirst(s, pat) ==
  LET i == IndexOf(s, pat)
  IN  IF i = 0 THEN s ELSE Take(s, i - 1) \o Drop(s, i + Len(pat) - 1)

RECURSIVE TrimStart(_)
TrimStart(s) ==
  IF s # <<>> /\ Head(s) \in Whitespace THEN TrimStart(Tail(s)) ELSE s

RECURSIVE TrimEnd(_)
TrimEnd(s) ==
  IF s # <<>> /\ s[Len(s)] \in Whitespace THEN TrimEnd(Take(s, Len(s) - 1)) ELSE s

\* String.trim().
Trim(s) == TrimEnd(TrimStart(s))

\* s.replace(/<think>.*?<\/think>/gs, ""): left to right, the leftmost <think>
\* with the first </think> after it is removed, and the scan goes on after it.
RECURSIVE StripThinkBlocks(_)
StripThinkBlocks(s) ==
  LET i == IndexOf(s, OPEN)
      j == IF i = 0 THEN 0 ELSE IndexFrom(s, CLOSE, i + Len(OPEN))
  IN  IF i = 0 \/ j = 0
        THEN s
        ELSE Take(s, i - 1) \o StripThinkBlocks(Drop(s, j + Len(CLOSE) - 1))

\* A mutant of VisibleContent: the accumulated text is trimmed and not stripped.
VisibleContentNoStrip(message) == Trim(message)

\* The token callback's visibleContent (App.tsx 591-593).
VisibleContent(message) == Trim(StripThinkBlocks(message))

\* ------------------------------------------------------------ state

VARIABLES
  conversation,     \* useState<Message[]> (App.tsx 48): the turns, in order
  isLoading,        \* useState (App.tsx 51)
  isGenerating,     \* useState (App.tsx 61)
  tokensPerSecond,  \* useState<number[]> (App.tsx 60)
  runs,             \* one record per handleSendMessage call that reached
                    \* context.completion: its closure variables and the engine's
                    \* side of the completion
  stops,            \* the stopGeneration calls awaiting context.stopCompletion()
  context,          \* useState<any>(null) (App.tsx 47): 0 is null, else the
                    \* engine context's number
  engineLive,       \* llama.rn: the contexts initLlama has returned and no
                    \* releaseAllLlama has released
  engineIniting,    \* llama.rn: the contexts an initLlama call is initialising
  releases,         \* releaseAllLlama calls nobody awaits, not yet carried out
  loads,            \* the loadModel calls between their start and their return
  isModelLoading,   \* useState (App.tsx 443)
  modelLoadError,   \* useState<string | null> (App.tsx 440): TRUE when a message shows
  currentPage,      \* useState (App.tsx 57)
  selectedGGUF,     \* useState<string | null> (App.tsx 55): "" is null
  disk,             \* the .gguf files of RNFS.DocumentDirectoryPath: name -> file
  metaFile,         \* model_metadata.json: <<>> when absent, else <<its JSON array>>
  modelMetadata,    \* useState<ModelMetadata[]> (App.tsx 66)
  downloadedModels, \* useState<string[]> (App.tsx 64)
  pendingWrites,    \* the RNFS.writeFile calls of the save effect not yet carried out
  loadEffect,       \* where the loadModelMetadata effect is (App.tsx 92-108)
  checkEffect,      \* where the checkDownloadedModels effect is (App.tsx 236-292)
  download,         \* the handleDownloadModel call, from its start (App.tsx 321-413)
  isDownloading,    \* useState (App.tsx 53)
  progress,         \* useState<number> (App.tsx 52), in steps of 1/ProgressSteps
  selectedModelFormat, \* useState<string> (App.tsx 54)
  boot,             \* how many times the app has been started; it stands for the
                    \* clock of new Date() too: one date per start
  availableGGUFs,   \* useState<string[]> (App.tsx 56)
  fetches           \* the handleFormatSelection calls awaiting axios.get, each with
                    \* the modelMetadata of the render it was made in

chatVars == <<conversation, isLoading, isGenerating, tokensPerSecond, runs, stops>>

engineVars ==
  <<context, engineLive, engineIniting, releases, loads, isModelLoading,
    modelLoadError, currentPage, selectedGGUF>>

storeVars ==
  <<disk, metaFile, modelMetadata, downloadedModels, pendingWrites, loadEffect,
    checkEffect, download, isDownloading, progress, selectedModelFormat, boot,
    availableGGUFs, fetches>>

catalogVars == <<availableGGUFs, fetches>>

nonChatVars == <<engineVars, storeVars>>

vars == <<chatVars, engineVars, storeVars>>

\* context === null.
NoContext == 0

\* An optional value (a field that may be undefined): <<>> or <<v>>.
None == <<>>
Some(v) == <<v>>

\* type Message (App.tsx 24-29).
Message(role, content, thought, showThought) ==
  [role |-> role, content |-> content, thought |-> thought, showThought |-> showThought]

SYSTEM_PROMPT == <<"s", "y", "s">>

\* INITIAL_CONVERSATION (App.tsx 40-46); the system prompt's text is abbreviated.
INITIAL_CONVERSATION == <<Message("system", SYSTEM_PROMPT, None, FALSE)>>

\* The placeholder handleSendMessage appends for the assistant (App.tsx 531-539).
Placeholder == Message("assistant", <<>>, None, FALSE)

LastIndex(conv) == Len(conv)

\* ------------------------------------------------- the token callback

\* The closure variables after the if/else-if chain of the callback
\* (App.tsx 561-589), and whether the </think> branch was taken.
ThinkStep(run, token) ==
  IF Includes(token, OPEN)
    THEN [inThink |-> TRUE, thought |-> RemoveFirst(token, OPEN), closed |-> FALSE,
          finalThought |-> <<>>]
  ELSE IF Includes(token, CLOSE)
    THEN [inThink |-> FALSE, thought |-> <<>>, closed |-> TRUE,
          finalThought |-> Trim(RemoveFirst(run.thought, CLOSE))]
  ELSE IF run.inThink
    THEN [inThink |-> TRUE, thought |-> run.thought \o token, closed |-> FALSE,
          finalThought |-> <<>>]
  ELSE [inThink |-> FALSE, thought |-> run.thought, closed |-> FALSE,
        finalThought |-> <<>>]

\* The updater of the </think> branch (App.tsx 570-584): the last turn loses the
\* first "<think>" + finalThought + "</think>" of its content and gets the thought.
PublishThought(conv, finalThought) ==
  [conv EXCEPT ![LastIndex(conv)] =
     [@ EXCEPT !.content = RemoveFirst(@, OPEN \o finalThought \o CLOSE),
               !.thought = Some(finalThought)]]

\* The updater at the end of the callback (App.tsx 595-600): the last turn's
\* content becomes visibleContent.
PublishContent(conv, visible) ==
  [conv EXCEPT ![LastIndex(conv)] = [@ EXCEPT !.content = visible]]

\* AfterToken with visibleContent computed fragment by fragment: the content
\* grows by what is visible of the token alone.
AfterTokenByFragment(conv, run, token) ==
  LET step == ThinkStep(run, token)
      c1 == IF step.closed THEN PublishThought(conv, step.finalThought) ELSE conv
  IN  PublishContent(c1, c1[LastIndex(c1)].content \o VisibleContent(token))

\* The conversation after the callback has run for one token (App.tsx 559-600).
AfterToken(conv, run, token) ==
  LET step == ThinkStep(run, token)
      c1 == IF step.closed THEN PublishThought(conv, step.finalThought) ELSE conv
  IN  PublishContent(c1, VisibleContent(run.message \o token))

\* ------------------------------------------------- the engine's output

\* The most stopGeneration calls awaiting stopCompletion at one time.
MaxStops == 1

Hello == <<"H", "e", "l", "l", "o", " ">>
Planning == <<"p", "l", "a", "n", "n", "i", "n", "g">>
World == <<" ", "w", "o", "r", "l", "d">>

\* "Hello <think>planning</think> world", delivered as the four fragments
\* "Hello ", "<thi", "nk>planning</thin", "k> world".
ExampleText == Hello \o OPEN \o Planning \o CLOSE \o World
ExamplePlan == <<Len(Hello), 4, 3 + Len(Planning) + 6, 2 + Len(World)>>

\* Texts with one complete pair, delivered in every possible fragmentation.
PairTexts ==
  { <<"x">> \o OPEN \o <<" ", "z", " ">> \o CLOSE \o <<"w">>,
    OPEN \o <<"z">> \o CLOSE \o <<" ", "w">> }

\* What the engine may be about to emit for one completion: a text, and either the
\* lengths of the fragments it will arrive in (scripted) or any fragmentation.
EngineOutputs ==
  {[text |-> ExampleText, scripted |-> TRUE, plan |-> ExamplePlan]}
    \cup {[text |-> t, scripted |-> FALSE, plan |-> <<>>] : t \in PairTexts}

\* What the user may have typed when Send is pressed.
UserInputs == {<<"h", "i">>, <<" ">>}

\* result.timings.predicted_per_second, rounded (App.tsx 612).
TokenRates == {7}

\* ------------------------------------------------ handleSendMessage

\* The closure variables of a handleSendMessage call (App.tsx 540-542) and the
\* engine's side of its completion: the text not yet delivered.
NewRun(out, turn) ==
  [rest |-> out.text, scripted |-> out.scripted, plan |-> out.plan,
   message |-> <<>>, thought |-> <<>>, inThink |-> FALSE,
   pc |-> "streaming", interrupted |-> FALSE, turn |-> turn]

\* Send pressed (App.tsx 496-553, up to the await of context.completion). The
\* button is shown when not isGenerating and enabled when not isLoading
\* (App.tsx 1016-1033).
SendMessage(outputs) ==
  /\ ~isGenerating
  /\ ~isLoading
  /\ \E input \in UserInputs, out \in outputs :
       IF context = NoContext \/ Trim(input) = <<>>
         THEN UNCHANGED chatVars
         ELSE /\ conversation' =
                   Append(Append(conversation, Message("user", input, None, FALSE)),
                          Placeholder)
              /\ isLoading' = TRUE
              /\ isGenerating' = TRUE
              /\ runs' = Append(runs, NewRun(out, Len(conversation) + 2))
              /\ UNCHANGED <<tokensPerSecond, stops>>
  /\ UNCHANGED nonChatVars

\* The engine delivers the next fragment of run i and the callback runs
\* (App.tsx 559-607).
OnToken(i) ==
  /\ runs[i].pc = "streaming"
  /\ \E k \in 0..Len(runs[i].rest) :
       /\ runs[i].scripted => runs[i].plan # <<>> /\ k = Head(runs[i].plan)
       /\ LET run == runs[i]
              token == Take(run.rest, k)
              step == ThinkStep(run, token)
          IN  /\ conversation' = AfterToken(conversation, run, token)
              /\ runs' = [runs EXCEPT ![i] =
                            [run EXCEPT !.rest = Drop(run.rest, k),
                                        !.plan = IF run.scripted THEN Tail(run.plan) ELSE <<>>,
                                        !.message = run.message \o token,
                                        !.thought = step.thought,
                                        !.inThink = step.inThink]]
  /\ UNCHANGED <<isLoading, isGenerating, tokensPerSecond, stops>>
  /\ UNCHANGED nonChatVars

\* context.completion resolves: the engine has delivered everything, or was asked
\* to stop (App.tsx 610-613, 618-621).
CompletionResolve(i) ==
  /\ runs[i].pc = "streaming"
  /\ runs[i].rest = <<>> \/ runs[i].interrupted
  /\ \E rate \in TokenRates : tokensPerSecond' = Append(tokensPerSecond, rate)
  /\ isLoading' = FALSE
  /\ isGenerating' = FALSE
  /\ runs' = [runs EXCEPT ![i].pc = "resolved"]
  /\ UNCHANGED <<conversation, stops>>
  /\ UNCHANGED nonChatVars

\* context.completion rejects (App.tsx 614-621): an alert, and the flags.
CompletionReject(i) ==
  /\ runs[i].pc = "streaming"
  /\ isLoading' = FALSE
  /\ isGenerating' = FALSE
  /\ runs' = [runs EXCEPT ![i].pc = "rejected"]
  /\ UNCHANGED <<conversation, tokensPerSecond, stops>>
  /\ UNCHANGED nonChatVars

\* ---------------------------------------------------- stopGeneration

\* A mutant of AppendStopNotice: the notice replaces the content.
AppendStopNoticeOverwrite(conv) ==
  IF conv[Len(conv)].role = "assistant"
    THEN [conv EXCEPT ![Len(conv)] = [@ EXCEPT !.content = STOP_NOTICE]]
    ELSE conv

\* The updater of stopGeneration (App.tsx 421-433).
AppendStopNotice(conv) ==
  IF conv[Len(conv)].role = "assistant"
    THEN [conv EXCEPT ![Len(conv)] = [@ EXCEPT !.content = @ \o STOP_NOTICE]]
    ELSE conv

\* Stop pressed (App.tsx 415-417, up to the await): the button is shown while
\* isGenerating (App.tsx 1016-1022). The engine is asked to stop; `published` keeps
\* what the last turn showed at this moment.
StopInvoke ==
  /\ isGenerating
  /\ Len(stops) < MaxStops
  /\ IF context = NoContext
       THEN UNCHANGED chatVars
       ELSE /\ stops' = Append(stops, [published |-> conversation[Len(conversation)].content])
            /\ runs' = [i \in DOMAIN runs |->
                          IF runs[i].pc = "streaming"
                            THEN [runs[i] EXCEPT !.interrupted = TRUE]
                            ELSE runs[i]]
            /\ UNCHANGED <<conversation, isLoading, isGenerating, tokensPerSecond>>
  /\ UNCHANGED nonChatVars

\* context.stopCompletion() resolves and stopGeneration goes on (App.tsx 418-433).
StopResolve ==
  /\ stops # <<>>
  /\ stops' = Tail(stops)
  /\ isGenerating' = FALSE
  /\ isLoading' = FALSE
  /\ conversation' = AppendStopNotice(conversation)
  /\ UNCHANGED <<tokensPerSecond, runs>>
  /\ UNCHANGED nonChatVars

\* ------------------------------------------------ model metadata

\* modelFormats (App.tsx 68-73).
modelFormats ==
  {"Llama-3.2-1B-Instruct", "Qwen2-0.5B-Instruct", "DeepSeek-R1-Distill-Qwen-1.5B",
   "SmolLM2-1.7B-Instruct"}

\* The names a .gguf file of the document directory may have.
QwenFile == "qwen2-instruct-q4.gguf"
PlainFile == "model.gguf"
Files == {QwenFile, PlainFile}

\* A file name that spells its family in capitals.
ShoutFile == "QWEN2-instruct-q4.gguf"

\* METADATA_FILE_PATH's file name (App.tsx 89).
METADATA_FILE == "model_metadata.json"

\* The characters of a file name.
Spell(name) ==
  CASE name = QwenFile ->
         <<"q", "w", "e", "n", "2", "-", "i", "n", "s", "t", "r", "u", "c", "t", "-",
           "q", "4", ".", "g", "g", "u", "f">>
    [] name = PlainFile -> <<"m", "o", "d", "e", "l", ".", "g", "g", "u", "f">>
    [] name = ShoutFile ->
         <<"Q", "W", "E", "N", "2", "-", "i", "n", "s", "t", "r", "u", "c", "t", "-",
           "q", "4", ".", "g", "g", "u", "f">>
    [] name = METADATA_FILE ->
         <<"m", "o", "d", "e", "l", "_", "m", "e", "t", "a", "d", "a", "t", "a", ".",
           "j", "s", "o", "n">>

\* file.name.endsWith(".gguf") (App.tsx 241).
EndsWithGguf(name) == IsSuffix(<<".", "g", "g", "u", "f">>, Spell(name))

\* InferFormat with no family recognised.
InferFormatUnknown(filename) == "Unknown"

\* The format checkDownloadedModels infers from a file name (App.tsx 254-264).
InferFormat(filename) ==
  LET has(pat) == Includes(Spell(filename), pat)
  IN  IF has(<<"L", "l", "a", "m", "a", "-", "3", ".", "2">>)
           \/ has(<<"l", "l", "a", "m", "a", "-", "3", ".", "2">>)
        THEN "Llama-3.2-1B-Instruct"
      ELSE IF has(<<"Q", "w", "e", "n", "2">>) \/ has(<<"q", "w", "e", "n", "2">>)
        THEN "Qwen2-0.5B-Instruct"
      ELSE IF has(<<"D", "e", "e", "p", "S", "e", "e", "k">>)
                \/ has(<<"d", "e", "e", "p", "s", "e", "e", "k">>)
        THEN "DeepSeek-R1-Distill-Qwen-1.5B"
      ELSE IF has(<<"S", "m", "o", "l", "L", "M">>) \/ has(<<"s", "m", "o", "l", "l", "m">>)
        THEN "SmolLM2-1.7B-Instruct"
      ELSE "Unknown"

\* type ModelMetadata (App.tsx 32-37); size is <<>> when undefined.
Metadata(filename, format, downloadDate, size) ==
  [filename |-> filename, format |-> format, downloadDate |-> downloadDate, size |-> size]

\* JSON.stringify of one record (App.tsx 116): a key whose value is undefined is
\* left out.
StringifyRecord(m) ==
  IF m.size = None
    THEN [filename |-> m.filename, format |-> m.format, downloadDate |-> m.downloadDate]
    ELSE [filename |-> m.filename, format |-> m.format, downloadDate |-> m.downloadDate,
          size |-> m.size[1]]

\* JSON.stringify(modelMetadata) (App.tsx 116).
Stringify(metadata) == [i \in 1..Len(metadata) |-> StringifyRecord(metadata[i])]

\* One object of JSON.parse(metadataString) read as a ModelMetadata (App.tsx 98).
ParseRecord(j) ==
  Metadata(j.filename, j.format, j.downloadDate,
           IF "size" \in DOMAIN j THEN Some(j.size) ELSE None)

\* JSON.parse(metadataString) as ModelMetadata[] (App.tsx 98).
Parse(json) == [i \in 1..Len(json) |-> ParseRecord(json[i])]

\* prev.findIndex(m => m.filename === file) (App.tsx 338, 385), 0 for -1.
FindIndex(metadata, file) ==
  LET hits == {i \in 1..Len(metadata) : metadata[i].filename = file}
  IN  IF hits = {} THEN 0 ELSE CHOOSE i \in hits : \A j \in hits : i <= j

\* The save effect (App.tsx 111-128) after modelMetadata has become `metadata`: a
\* write of the whole array is started, unless the array is empty.
WritesAfter(metadata) ==
  IF Len(metadata) > 0 THEN Append(pendingWrites, Stringify(metadata)) ELSE pendingWrites

\* The most writes of the metadata file under way at one time.
MaxWrites == 1

\* setModelMetadata(metadata) and the save effect it triggers.
SetModelMetadata(metadata) ==
  /\ Len(metadata) > 0 => Len(pendingWrites) < MaxWrites
  /\ modelMetadata' = metadata
  /\ pendingWrites' = WritesAfter(metadata)

\* ------------------------------------------------------- the engine

\* The most contexts llama.rn is let hold at once, live or being initialised.
MaxContexts == 2

\* The most releaseAllLlama calls in flight that nobody awaits.
MaxReleases == 1

\* The number initLlama's next context gets.
FreshContext ==
  LET used == engineLive \cup engineIniting \cup {context}
  IN  CHOOSE n \in 1..(MaxContexts + 2) : n \notin used /\ \A m \in 1..(n - 1) : m \in used

\* modelMetadata.find(m => m.filename === modelName) gives a record of format
\* "Unknown" (App.tsx 467-468).
UnknownFormat(metadata, file) ==
  LET i == FindIndex(metadata, file)
  IN  i > 0 /\ metadata[i].format = "Unknown"

\* What a loadModel call keeps of the render it was made in (App.tsx 445-494):
\* whether the context it tests at 451 is set, whether line 468 holds, and the
\* selectedModelFormat of line 472.
LoadCall(file, from, held, unknown, format) ==
  [file |-> file, from |-> from, held |-> held, unknown |-> unknown,
   format |-> format, ctx |-> NoContext,
   pc |-> IF held THEN "releasing" ELSE "initing"]

\* The most loadModel calls between their start and their return at one time.
MaxLoads == 2

\* loadModel up to its first await (App.tsx 445-462): with a context held it
\* awaits releaseAllLlama, else initLlama starts at once.
StartLoad(file, from, held, unknown, format) ==
  LET call == LoadCall(file, from, held, unknown, format)
  IN  /\ Len(loads) < MaxLoads
      /\ ~held => Cardinality(engineLive \cup engineIniting) < MaxContexts
      /\ isModelLoading' = TRUE
      /\ IF held
           THEN /\ loads' = Append(loads, call)
                /\ UNCHANGED engineIniting
           ELSE /\ loads' = Append(loads, [call EXCEPT !.ctx = FreshContext])
                /\ engineIniting' = engineIniting \cup {FreshContext}

\* s without its i-th element.
RemoveAt(s, i) == Take(s, i - 1) \o Drop(s, i)

\* The updater of App.tsx 470-474.
BackfillFormat(metadata, file, format) ==
  [i \in 1..Len(metadata) |->
     IF metadata[i].filename = file
       THEN [metadata[i] EXCEPT !.format = IF format # "" THEN format ELSE @]
       ELSE metadata[i]]

\* AfterLoad with the transfer begun whatever loadModel of the existing file
\* returned.
AfterLoadThenTransfer(call, ok) ==
  IF call.from = "press"
    THEN UNCHANGED <<download, isDownloading, currentPage>>
  ELSE IF call.from = "existing"
    THEN /\ download' = [download EXCEPT !.pc = "transferring", !.transferred = TRUE,
                                         !.reloaded = ok]
         /\ UNCHANGED <<isDownloading, currentPage>>
  ELSE /\ download' = [download EXCEPT !.pc = "done", !.loaded = ok]
       /\ isDownloading' = FALSE
       /\ currentPage' = "conversation"

\* What follows the return of a loadModel call in its caller: nothing after a
\* press; in handleDownloadModel, the return of App.tsx 351-359 or the fall into
\* the transfer (362-368) for an existing file, the finally (410-412) after a
\* transfer; and then handleDownloadAndNavigate's setCurrentPage (148-149).
AfterLoad(call, ok) ==
  IF call.from = "press"
    THEN UNCHANGED <<download, isDownloading, currentPage>>
  ELSE IF call.from = "existing" /\ ~ok
    THEN /\ download' = [download EXCEPT !.pc = "transferring", !.transferred = TRUE]
         /\ UNCHANGED <<isDownloading, currentPage>>
  ELSE /\ download' = [download EXCEPT !.pc = "done", !.loaded = ok,
                                       !.reloaded = (call.from = "existing")]
       /\ isDownloading' = FALSE
       /\ currentPage' = "conversation"

\* The awaited releaseAllLlama of loadModel resolves (App.tsx 452-462): every
\* context is released, the state is reset, and initLlama starts.
LoadReleased(i) ==
  /\ loads[i].pc = "releasing"
  /\ LET id == CHOOSE n \in 1..(MaxContexts + 2) :
                 n \notin engineIniting /\ \A m \in 1..(n - 1) : m \in engineIniting
     IN  /\ engineLive' = {}
         /\ engineIniting' = engineIniting \cup {id}
         /\ loads' = [loads EXCEPT ![i] = [@ EXCEPT !.pc = "initing", !.ctx = id]]
  /\ context' = NoContext
  /\ conversation' = INITIAL_CONVERSATION
  /\ UNCHANGED <<isLoading, isGenerating, tokensPerSecond, runs, stops>>
  /\ UNCHANGED <<releases, isModelLoading, modelLoadError, currentPage, selectedGGUF>>
  /\ UNCHANGED storeVars

\* initLlama resolves and loadModel returns true (App.tsx 464-479).
LoadInitResolved(i) ==
  /\ loads[i].pc = "initing"
  /\ LET call == loads[i]
     IN  /\ engineIniting' = engineIniting \ {call.ctx}
         /\ engineLive' = engineLive \cup {call.ctx}
         /\ context' = call.ctx
         /\ IF call.unknown
              THEN SetModelMetadata(BackfillFormat(modelMetadata, call.file, call.format))
              ELSE UNCHANGED <<modelMetadata, pendingWrites>>
         /\ AfterLoad(call, TRUE)
  /\ isModelLoading' = FALSE
  /\ loads' = RemoveAt(loads, i)
  /\ UNCHANGED <<releases, modelLoadError, selectedGGUF>>
  /\ UNCHANGED <<disk, metaFile, downloadedModels, loadEffect, checkEffect, progress,
                 selectedModelFormat, boot>>
  /\ UNCHANGED catalogVars
  /\ UNCHANGED chatVars

\* initLlama rejects and loadModel returns false (App.tsx 480-493).
LoadInitRejected(i) ==
  /\ loads[i].pc = "initing"
  /\ engineIniting' = engineIniting \ {loads[i].ctx}
  /\ modelLoadError' = TRUE
  /\ isModelLoading' = FALSE
  /\ AfterLoad(loads[i], FALSE)
  /\ loads' = RemoveAt(loads, i)
  /\ UNCHANGED <<context, engineLive, releases, selectedGGUF>>
  /\ UNCHANGED <<disk, metaFile, modelMetadata, downloadedModels, pendingWrites,
                 loadEffect, checkEffect, progress, selectedModelFormat, boot>>
  /\ UNCHANGED catalogVars
  /\ UNCHANGED chatVars

\* The timer of App.tsx 487-489 fires.
ClearLoadError ==
  /\ modelLoadError
  /\ modelLoadError' = FALSE
  /\ UNCHANGED <<context, engineLive, engineIniting, releases, loads, isModelLoading,
                 currentPage, selectedGGUF>>
  /\ UNCHANGED <<chatVars, storeVars>>

\* llama.rn carries out a releaseAllLlama call that nobody awaits.
ReleaseDone ==
  /\ releases > 0
  /\ releases' = releases - 1
  /\ engineLive' = {}
  /\ UNCHANGED <<context, engineIniting, loads, isModelLoading, modelLoadError,
                 currentPage, selectedGGUF>>
  /\ UNCHANGED <<chatVars, storeVars>>

\* "Back to Model Selection" pressed (App.tsx 152-159, 1035-1042): the context is
\* forgotten and releaseAllLlama is called and not awaited.
handleBackToModelSelection ==
  /\ currentPage = "conversation"
  /\ releases < MaxReleases
  /\ context' = NoContext
  /\ releases' = releases + 1
  /\ conversation' = INITIAL_CONVERSATION
  /\ selectedGGUF' = ""
  /\ tokensPerSecond' = <<>>
  /\ currentPage' = "modelSelection"
  /\ UNCHANGED <<engineLive, engineIniting, loads, isModelLoading, modelLoadError>>
  /\ UNCHANGED <<isLoading, isGenerating, runs, stops>>
  /\ UNCHANGED storeVars

\* The elements of a sequence.
Range(s) == {s[i] : i \in DOMAIN s}

\* Whether the model selection page lists `file` with a press that loads it: under
\* a selected format the files of availableGGUFs that are downloaded (App.tsx
\* 787-801; the catalogue may list any name), else the downloaded files whose
\* record has one of modelFormats (871-895).
ListedForLoad(file) ==
  /\ file \in Range(downloadedModels)
  /\ selectedModelFormat = "" =>
       \E i \in DOMAIN modelMetadata :
         modelMetadata[i].filename = file /\ modelMetadata[i].format \in modelFormats

\* SelectionCardShown without its test of isDownloading.
SelectionCardShownWhileDownloading == currentPage = "modelSelection"

\* The model selection card shows (App.tsx 731). The loading overlay (703-711) is a
\* view drawn over the page while isModelLoading; no handler tests isModelLoading,
\* and a press is let through while it shows.
SelectionCardShown == currentPage = "modelSelection" /\ ~isDownloading

\* A downloaded model pressed (App.tsx 796-800, 891-895): loadModel starts.
PressModel(file) ==
  /\ SelectionCardShown
  /\ ListedForLoad(file)
  /\ StartLoad(file, "press", context # NoContext, UnknownFormat(modelMetadata, file),
               selectedModelFormat)
  /\ currentPage' = "conversation"
  /\ selectedGGUF' = file
  /\ UNCHANGED <<context, engineLive, releases, modelLoadError>>
  /\ UNCHANGED <<chatVars, storeVars>>

\* A format filter pressed (App.tsx 204-207), or "All Local Models" (739-742): the
\* format is set and the list cleared. What the catalogue answers under a format is
\* left open here (ListedForLoad lets it list any name); handleFormatSelection
\* below follows the query.
SelectFormat(format) ==
  /\ SelectionCardShown
  /\ selectedModelFormat' = format
  /\ availableGGUFs' = <<>>
  /\ UNCHANGED fetches
  /\ UNCHANGED <<disk, metaFile, modelMetadata, downloadedModels, pendingWrites,
                 loadEffect, checkEffect, download, isDownloading, progress, boot>>
  /\ UNCHANGED <<chatVars, engineVars>>

\* ------------------------------------------------ handleFormatSelection

\* The most handleFormatSelection calls awaiting their query at once.
MaxFetches == 2

\* response.data.siblings of the catalogue for a format, filtered by ".gguf" and
\* mapped to rfilename (App.tsx 212-220).
CatalogFiles(format) ==
  IF format = "Qwen2-0.5B-Instruct" THEN <<QwenFile, "qwen2-instruct-q8.gguf">> ELSE <<>>

\* modelMetadata.filter(model => model.format === format).map(model =>
\* model.filename) (App.tsx 226-228).
LocalFiles(metadata, format) ==
  LET filtered == SelectSeq(metadata, LAMBDA model : model.format = format)
  IN  [i \in 1..Len(filtered) |-> filtered[i].filename]

\* A format filter pressed (App.tsx 766, 204-213): the format is set, the list
\* cleared and the query sent. The call keeps the modelMetadata of its render.
handleFormatSelection(format) ==
  /\ SelectionCardShown
  /\ Len(fetches) < MaxFetches
  /\ selectedModelFormat' = format
  /\ availableGGUFs' = <<>>
  /\ fetches' = Append(fetches, [format |-> format, modelMetadata |-> modelMetadata])
  /\ UNCHANGED <<disk, metaFile, modelMetadata, downloadedModels, pendingWrites,
                 loadEffect, checkEffect, download, isDownloading, progress, boot>>
  /\ UNCHANGED <<chatVars, engineVars>>

\* axios.get resolves (App.tsx 215-221).
CatalogResolved(i) ==
  /\ availableGGUFs' = CatalogFiles(fetches[i].format)
  /\ fetches' = RemoveAt(fetches, i)
  /\ UNCHANGED <<disk, metaFile, modelMetadata, downloadedModels, pendingWrites,
                 loadEffect, checkEffect, download, isDownloading, progress,
                 selectedModelFormat, boot>>
  /\ UNCHANGED <<chatVars, engineVars>>

\* axios.get rejects (App.tsx 222-232).
CatalogRejected(i) ==
  /\ availableGGUFs' = LocalFiles(fetches[i].modelMetadata, fetches[i].format)
  /\ fetches' = RemoveAt(fetches, i)
  /\ UNCHANGED <<disk, metaFile, modelMetadata, downloadedModels, pendingWrites,
                 loadEffect, checkEffect, download, isDownloading, progress,
                 selectedModelFormat, boot>>
  /\ UNCHANGED <<chatVars, engineVars>>

\* ---------------------------------------------------- the file system

\* The size RNFS.stat reports for a file: one wholly transferred, and one a transfer
\* has begun to write.
WholeSize(file) == 500
PartialSize(file) == 200

\* The document directory with `file` of `size` in it, and without `file`.
WithFile(d, file, size) ==
  [f \in DOMAIN d \cup {file} |-> IF f = file THEN size ELSE d[f]]
WithoutFile(d, file) == [f \in DOMAIN d \ {file} |-> d[f]]

\* RNFS.readDir(RNFS.DocumentDirectoryPath), as names (App.tsx 239).
ReadDir ==
  SelectSeq(<<QwenFile, PlainFile, ShoutFile, METADATA_FILE>>,
            LAMBDA n : n \in DOMAIN disk \/ (n = METADATA_FILE /\ metaFile # None))

\* A writeFile of the save effect completes (App.tsx 115-119).
WriteDone ==
  /\ pendingWrites # <<>>
  /\ metaFile' = Some(Head(pendingWrites))
  /\ pendingWrites' = Tail(pendingWrites)
  /\ UNCHANGED <<disk, modelMetadata, downloadedModels, loadEffect, checkEffect,
                 download, isDownloading, progress, selectedModelFormat, boot>>
  /\ UNCHANGED catalogVars
  /\ UNCHANGED <<chatVars, engineVars>>

\* ------------------------------------------------- the startup effects

\* The modelMetadata of the first render, the one the effects that run once close
\* over (App.tsx 66, 246, 292).
MountMetadata == <<>>

\* loadModelMetadata: RNFS.exists(METADATA_FILE_PATH) resolves (App.tsx 94-95).
LoadMetadataExists ==
  /\ loadEffect = "exists"
  /\ loadEffect' = IF metaFile # None THEN "read" ELSE "done"
  /\ UNCHANGED <<disk, metaFile, modelMetadata, downloadedModels, pendingWrites,
                 checkEffect, download, isDownloading, progress, selectedModelFormat,
                 boot>>
  /\ UNCHANGED catalogVars
  /\ UNCHANGED <<chatVars, engineVars>>

\* loadModelMetadata: RNFS.readFile resolves and its JSON becomes the mapping
\* (App.tsx 96-99).
LoadMetadataRead ==
  /\ loadEffect = "read"
  /\ loadEffect' = "done"
  /\ SetModelMetadata(Parse(metaFile[1]))
  /\ UNCHANGED <<disk, metaFile, downloadedModels, checkEffect, download,
                 isDownloading, progress, selectedModelFormat, boot>>
  /\ UNCHANGED catalogVars
  /\ UNCHANGED <<chatVars, engineVars>>

\* checkDownloadedModels: RNFS.readDir resolves (App.tsx 239-249).
CheckReadDir ==
  /\ checkEffect.pc = "readDir"
  /\ LET ggufFiles == SelectSeq(ReadDir, EndsWithGguf)
         existingFilenames == {MountMetadata[i].filename : i \in DOMAIN MountMetadata}
         newFiles == SelectSeq(ggufFiles, LAMBDA f : f \notin existingFilenames)
     IN  /\ downloadedModels' = ggufFiles
         /\ checkEffect' = [pc |-> IF Len(newFiles) > 0 THEN "stat" ELSE "done",
                            files |-> newFiles]
  /\ UNCHANGED <<disk, metaFile, modelMetadata, pendingWrites, loadEffect, download,
                 isDownloading, progress, selectedModelFormat, boot>>
  /\ UNCHANGED catalogVars
  /\ UNCHANGED <<chatVars, engineVars>>

\* The record checkDownloadedModels makes for a new file (App.tsx 252-279).
InferredRecord(filename, size) == Metadata(filename, InferFormat(filename), boot, size)

\* checkDownloadedModels: every RNFS.stat has settled, by throwing for a file that
\* is gone, and the records are appended (App.tsx 250-283).
CheckStatsSettled ==
  /\ checkEffect.pc = "stat"
  /\ LET newFiles == checkEffect.files
         size(f) == IF f \in DOMAIN disk THEN Some(disk[f]) ELSE None
         newMetadata == [i \in 1..Len(newFiles) |-> InferredRecord(newFiles[i], size(newFiles[i]))]
     IN  SetModelMetadata(modelMetadata \o newMetadata)
  /\ checkEffect' = [pc |-> "done", files |-> <<>>]
  /\ UNCHANGED <<disk, metaFile, downloadedModels, loadEffect, download, isDownloading,
                 progress, selectedModelFormat, boot>>
  /\ UNCHANGED catalogVars
  /\ UNCHANGED <<chatVars, engineVars>>

\* ------------------------------------------------ handleDownloadModel

\* The progress values downloadModel reports, as steps.
ProgressSteps == 1

\* handleDownloadModel's call: the file, where the call is, what its loadModel keeps
\* of the render (see LoadCall), and what has happened in it: the file existed at
\* 329, loadModel of the existing file returned true, downloadModel was called, a
\* progress callback was reported, the last loadModel returned true; and whether
\* the updater of 336-346 met a record of the file that had no size; and the alert
\* its catch has shown (408), <<>> when none.
IdleDownload ==
  [file |-> "", pc |-> "idle", held |-> FALSE, unknown |-> FALSE, format |-> "",
   existed |-> FALSE, reloaded |-> FALSE, transferred |-> FALSE, progressed |-> FALSE,
   loaded |-> FALSE, sizeless |-> FALSE, alert |-> None]

\* The test of App.tsx 339.
Sizeless(metadata, file) ==
  LET existingIndex == FindIndex(metadata, file)
  IN  existingIndex > 0 /\ metadata[existingIndex].size \in {None, Some(0)}

\* The updater of App.tsx 336-346 without its assignment.
BackfillSizeNever(metadata, file, size) == metadata

\* The updater of App.tsx 336-346.
BackfillSize(metadata, file, size) ==
  LET existingIndex == FindIndex(metadata, file)
  IN  IF Sizeless(metadata, file)
        THEN [metadata EXCEPT ![existingIndex].size = Some(size)]
        ELSE metadata

\* The updater of App.tsx 383-392.
Upsert(metadata, newMetadata) ==
  LET exists == FindIndex(metadata, newMetadata.filename)
  IN  IF exists > 0 THEN [metadata EXCEPT ![exists] = newMetadata]
                    ELSE Append(metadata, newMetadata)

\* A file that is not downloaded pressed in the list of a format and the download
\* confirmed (App.tsx 130-150, 801), then handleDownloadModel up to its loadModel of
\* the existing file or its downloadModel (321-368).
DownloadStart(file) ==
  /\ SelectionCardShown
  /\ selectedModelFormat # ""
  /\ file \notin Range(downloadedModels)
  /\ selectedGGUF' = file
  /\ isDownloading' = TRUE
  /\ progress' = 0
  /\ LET call == [IdleDownload EXCEPT !.file = file, !.held = (context # NoContext),
                                      !.unknown = UnknownFormat(modelMetadata, file),
                                      !.format = selectedModelFormat]
     IN  IF file \in DOMAIN disk
           THEN /\ SetModelMetadata(BackfillSize(modelMetadata, file, disk[file]))
                /\ StartLoad(file, "existing", call.held, call.unknown, call.format)
                /\ download' = [call EXCEPT !.pc = "loading", !.existed = TRUE,
                                             !.sizeless = Sizeless(modelMetadata, file)]
           ELSE /\ download' = [call EXCEPT !.pc = "transferring", !.transferred = TRUE]
                /\ UNCHANGED <<modelMetadata, pendingWrites, loads, isModelLoading,
                               engineIniting>>
  /\ UNCHANGED <<context, engineLive, releases, modelLoadError, currentPage>>
  /\ UNCHANGED <<disk, metaFile, downloadedModels, loadEffect, checkEffect,
                 selectedModelFormat, boot>>
  /\ UNCHANGED catalogVars
  /\ UNCHANGED chatVars

\* downloadModel reports progress (App.tsx 366-368): bytes have reached the file.
TransferProgress ==
  /\ download.pc = "transferring"
  /\ progress < ProgressSteps
  /\ progress' = progress + 1
  /\ disk' = WithFile(disk, download.file, PartialSize(download.file))
  /\ download' = [download EXCEPT !.progressed = TRUE]
  /\ UNCHANGED <<metaFile, modelMetadata, downloadedModels, pendingWrites, loadEffect,
                 checkEffect, isDownloading, selectedModelFormat, boot>>
  /\ UNCHANGED catalogVars
  /\ UNCHANGED <<chatVars, engineVars>>

\* downloadModel resolves: the size is read, the record upserted, the file listed
\* as downloaded, and loadModel called (App.tsx 366-404).
TransferDone ==
  /\ download.pc = "transferring"
  /\ LET file == download.file
         newMetadata == Metadata(file, download.format, boot, Some(WholeSize(file)))
     IN  /\ disk' = WithFile(disk, file, WholeSize(file))
         /\ SetModelMetadata(Upsert(modelMetadata, newMetadata))
         /\ downloadedModels' = IF file \in Range(downloadedModels)
                                  THEN downloadedModels
                                  ELSE Append(downloadedModels, file)
         /\ StartLoad(file, "fresh", download.held, download.unknown, download.format)
  /\ download' = [download EXCEPT !.pc = "loading"]
  /\ UNCHANGED <<context, engineLive, releases, modelLoadError, currentPage,
                 selectedGGUF>>
  /\ UNCHANGED <<metaFile, loadEffect, checkEffect, isDownloading, progress,
                 selectedModelFormat, boot>>
  /\ UNCHANGED catalogVars
  /\ UNCHANGED chatVars

\* The messages downloadModel rejects with.
Causes == {"Network request failed"}

\* DownloadFailed without the message of the error.
DownloadFailedNoCause(errorMessage) == <<"Error", "Download failed: ", "">>

\* Alert.alert("Error", `Download failed: ${errorMessage}`) (App.tsx 408).
DownloadFailed(errorMessage) == <<"Error", "Download failed: ", errorMessage>>

\* downloadModel rejects with a message (App.tsx 405-412, 148-149): the alert shows
\* it, and what downloadModel wrote stays.
TransferFail(errorMessage) ==
  /\ download.pc = "transferring"
  /\ download' = [download EXCEPT !.pc = "done", !.alert = Some(DownloadFailed(errorMessage))]
  /\ isDownloading' = FALSE
  /\ currentPage' = "conversation"
  /\ UNCHANGED <<context, engineLive, engineIniting, releases, loads, isModelLoading,
                 modelLoadError, selectedGGUF>>
  /\ UNCHANGED <<disk, metaFile, modelMetadata, downloadedModels, pendingWrites,
                 loadEffect, checkEffect, progress, selectedModelFormat, boot>>
  /\ UNCHANGED catalogVars
  /\ UNCHANGED chatVars

\* ---------------------------------------------------------- deleteModel

\* deleteModel without the update of the metadata.
deleteModelKeepsRecords(filename, unlinked) ==
  /\ SelectionCardShown
  /\ ListedForLoad(filename)
  /\ IF filename \in DOMAIN disk /\ unlinked
       THEN /\ disk' = WithoutFile(disk, filename)
            /\ downloadedModels' = SelectSeq(downloadedModels, LAMBDA m : m # filename)
            /\ UNCHANGED <<modelMetadata, pendingWrites>>
       ELSE UNCHANGED <<disk, modelMetadata, pendingWrites, downloadedModels>>
  /\ UNCHANGED <<metaFile, loadEffect, checkEffect, download, isDownloading, progress,
                 selectedModelFormat, boot>>
  /\ UNCHANGED catalogVars
  /\ UNCHANGED <<chatVars, engineVars>>

\* The delete button of a listed model pressed (App.tsx 631-679). When the file
\* does not exist the handler returns after its alert (636-639); else the deletion
\* is confirmed, and RNFS.unlink resolves (`unlinked`), followed by the two
\* updaters (658-664), or rejects, followed by the alert of 667-671 alone.
deleteModel(filename, unlinked) ==
  /\ SelectionCardShown
  /\ ListedForLoad(filename)
  /\ IF filename \in DOMAIN disk /\ unlinked
       THEN /\ disk' = WithoutFile(disk, filename)
            /\ SetModelMetadata(SelectSeq(modelMetadata, LAMBDA m : m.filename # filename))
            /\ downloadedModels' = SelectSeq(downloadedModels, LAMBDA m : m # filename)
       ELSE UNCHANGED <<disk, modelMetadata, pendingWrites, downloadedModels>>
  /\ UNCHANGED <<metaFile, loadEffect, checkEffect, download, isDownloading, progress,
                 selectedModelFormat, boot>>
  /\ UNCHANGED catalogVars
  /\ UNCHANGED <<chatVars, engineVars>>

\* ------------------------------------------------------------- restart

\* The most starts of the app.
MaxBoots == 2

\* checkDownloadedModels before RNFS.readDir resolves.
CheckStarting == [pc |-> "readDir", files |-> <<>>]

\* The app is closed and started again: the state of App.tsx 47-66 is new, the
\* effects of 92-108 and 236-292 begin, the engine's contexts and the writes under
\* way are gone with the process, the files stay.
Restart ==
  /\ boot < MaxBoots
  /\ boot' = boot + 1
  /\ availableGGUFs' = <<>>
  /\ fetches' = <<>>
  /\ conversation' = INITIAL_CONVERSATION
  /\ isLoading' = FALSE
  /\ isGenerating' = FALSE
  /\ tokensPerSecond' = <<>>
  /\ runs' = <<>>
  /\ stops' = <<>>
  /\ context' = NoContext
  /\ engineLive' = {}
  /\ engineIniting' = {}
  /\ releases' = 0
  /\ loads' = <<>>
  /\ isModelLoading' = FALSE
  /\ modelLoadError' = FALSE
  /\ currentPage' = "modelSelection"
  /\ selectedGGUF' = ""
  /\ modelMetadata' = <<>>
  /\ downloadedModels' = <<>>
  /\ pendingWrites' = <<>>
  /\ loadEffect' = "exists"
  /\ checkEffect' = CheckStarting
  /\ download' = IdleDownload
  /\ isDownloading' = FALSE
  /\ progress' = 0
  /\ selectedModelFormat' = ""
  /\ UNCHANGED <<disk, metaFile>>

\* ------------------------------------- the completion session's runs

\* A model is loaded and the conversation page shows: one completion session.
\* checkDownloadedModels after its last step.
CheckDone == [pc |-> "done", files |-> <<>>]

\* The app after its first start has ended with `files` in the document directory:
\* both effects are over, every file has the record checkDownloadedModels made for
\* it, and the metadata file holds them.
Started(files) ==
  /\ boot = 1
  /\ disk = [f \in Range(files) |-> WholeSize(f)]
  /\ modelMetadata = [i \in 1..Len(files) |-> InferredRecord(files[i], Some(WholeSize(files[i])))]
  /\ metaFile = Some(Stringify(modelMetadata))
  /\ downloadedModels = files
  /\ pendingWrites = <<>>
  /\ loadEffect = "done"
  /\ checkEffect = CheckDone
  /\ download = IdleDownload
  /\ isDownloading = FALSE
  /\ progress = 0
  /\ selectedModelFormat = ""
  /\ availableGGUFs = <<>>
  /\ fetches = <<>>
  /\ conversation = INITIAL_CONVERSATION
  /\ isLoading = FALSE
  /\ isGenerating = FALSE
  /\ tokensPerSecond = <<>>
  /\ runs = <<>>
  /\ stops = <<>>
  /\ engineIniting = {}
  /\ releases = 0
  /\ loads = <<>>
  /\ isModelLoading = FALSE
  /\ modelLoadError = FALSE

\* A model is loaded and the conversation page shows.
InitChat ==
  /\ Started(<<QwenFile>>)
  /\ context = 1
  /\ engineLive = {1}
  /\ currentPage = "conversation"
  /\ selectedGGUF = QwenFile

NextChat ==
  \/ runs = <<>> /\ SendMessage(EngineOutputs)
  \/ \E i \in DOMAIN runs : OnToken(i)
  \/ \E i \in DOMAIN runs : CompletionResolve(i)
  \/ \E i \in DOMAIN runs : CompletionReject(i)
  \/ StopInvoke
  \/ StopResolve

SpecChat == InitChat /\ [][NextChat]_vars

\* Texts for the token callback, each delivered in every possible fragmentation: a
\* <think> that is never closed, two pairs, and a pair between other text.
UnclosedText == <<"a">> \o OPEN \o <<"b">>
TwoPairsText == OPEN \o <<"a">> \o CLOSE \o OPEN \o <<" ", "b">> \o CLOSE
SharedText == <<"x">> \o OPEN \o <<"z">> \o CLOSE \o <<"w">>

ParseOutputs ==
  {[text |-> t, scripted |-> FALSE, plan |-> <<>>] :
     t \in {UnclosedText, TwoPairsText, SharedText}}

\* One handleSendMessage call and its completion, over these texts.
NextParse ==
  \/ runs = <<>> /\ SendMessage(ParseOutputs)
  \/ \E i \in DOMAIN runs : OnToken(i)
  \/ \E i \in DOMAIN runs : CompletionResolve(i)

SpecParse == InitChat /\ [][NextParse]_vars

\* ---------------------------------------------- the engine session

\* The selection page shows two downloaded models, none loaded.
InitEngine ==
  /\ Started(<<QwenFile, PlainFile>>)
  /\ context = NoContext
  /\ engineLive = {}
  /\ currentPage = "modelSelection"
  /\ selectedGGUF = ""

\* The formats to select, "" for "All Local Models".
Formats == {"", "Qwen2-0.5B-Instruct"}

NextEngine ==
  \/ \E file \in Files : PressModel(file)
  \/ \E format \in Formats : SelectFormat(format)
  \/ \E i \in DOMAIN loads : LoadReleased(i)
  \/ \E i \in DOMAIN loads : LoadInitResolved(i)
  \/ \E i \in DOMAIN loads : LoadInitRejected(i)
  \/ ClearLoadError
  \/ ReleaseDone
  \/ handleBackToModelSelection
  \/ WriteDone

SpecEngine == InitEngine /\ [][NextEngine]_vars

\* --------------------------------------------------- the metadata store

\* The first start of the app, one model file in the document directory. Each start
\* is followed here up to the one time it leaves the selection page, for the
\* conversation.
InitStore ==
  /\ boot = 1
  /\ disk = [f \in {QwenFile} |-> WholeSize(f)]
  /\ metaFile = None
  /\ modelMetadata = <<>>
  /\ downloadedModels = <<>>
  /\ pendingWrites = <<>>
  /\ loadEffect = "exists"
  /\ checkEffect = CheckStarting
  /\ download = IdleDownload
  /\ isDownloading = FALSE
  /\ progress = 0
  /\ selectedModelFormat = ""
  /\ availableGGUFs = <<>>
  /\ fetches = <<>>
  /\ conversation = INITIAL_CONVERSATION
  /\ isLoading = FALSE
  /\ isGenerating = FALSE
  /\ tokensPerSecond = <<>>
  /\ runs = <<>>
  /\ stops = <<>>
  /\ context = NoContext
  /\ engineLive = {}
  /\ engineIniting = {}
  /\ releases = 0
  /\ loads = <<>>
  /\ isModelLoading = FALSE
  /\ modelLoadError = FALSE
  /\ currentPage = "modelSelection"
  /\ selectedGGUF = ""

NextStore ==
  \/ LoadMetadataExists
  \/ LoadMetadataRead
  \/ CheckReadDir
  \/ CheckStatsSettled
  \/ WriteDone
  \/ \E format \in Formats : SelectFormat(format)
  \/ \E file \in Files : DownloadStart(file)
  \/ TransferProgress
  \/ TransferDone
  \/ \E errorMessage \in Causes : TransferFail(errorMessage)
  \/ \E file \in Files : PressModel(file)
  \/ \E i \in DOMAIN loads : LoadInitResolved(i)
  \/ \E i \in DOMAIN loads : LoadInitRejected(i)
  \/ \E filename \in Files, unlinked \in BOOLEAN : deleteModel(filename, unlinked)
  \/ Restart

SpecStore == InitStore /\ [][NextStore]_vars

\* The format filters with the catalogue's query followed, beside the effects of
\* the start and the deletions that change the mapping meanwhile.
NextCatalog ==
  \/ LoadMetadataExists
  \/ LoadMetadataRead
  \/ CheckReadDir
  \/ CheckStatsSettled
  \/ WriteDone
  \/ \E format \in Formats \ {""} : handleFormatSelection(format)
  \/ SelectFormat("")
  \/ \E i \in DOMAIN fetches : CatalogResolved(i)
  \/ \E i \in DOMAIN fetches : CatalogRejected(i)
  \/ \E filename \in Files, unlinked \in BOOLEAN : deleteModel(filename, unlinked)
  \/ Restart

SpecCatalog == InitStore /\ [][NextCatalog]_vars

\* The starts of the app over any files in the document directory: the first start
\* finds a set of the names below, no metadata file, and the effects beginning.
DiskNames == {QwenFile, PlainFile, ShoutFile}

InitReconcile ==
  /\ boot = 1
  /\ disk \in {[f \in S |-> WholeSize(f)] : S \in SUBSET DiskNames}
  /\ metaFile = None
  /\ modelMetadata = <<>>
  /\ downloadedModels = <<>>
  /\ pendingWrites = <<>>
  /\ loadEffect = "exists"
  /\ checkEffect = CheckStarting
  /\ download = IdleDownload
  /\ isDownloading = FALSE
  /\ progress = 0
  /\ selectedModelFormat = ""
  /\ availableGGUFs = <<>>
  /\ fetches = <<>>
  /\ conversation = INITIAL_CONVERSATION
  /\ isLoading = FALSE
  /\ isGenerating = FALSE
  /\ tokensPerSecond = <<>>
  /\ runs = <<>>
  /\ stops = <<>>
  /\ context = NoContext
  /\ engineLive = {}
  /\ engineIniting = {}
  /\ releases = 0
  /\ loads = <<>>
  /\ isModelLoading = FALSE
  /\ modelLoadError = FALSE
  /\ currentPage = "modelSelection"
  /\ selectedGGUF = ""

NextReconcile ==
  \/ LoadMetadataExists
  \/ LoadMetadataRead
  \/ CheckReadDir
  \/ CheckStatsSettled
  \/ WriteDone
  \/ Restart

SpecReconcile == InitReconcile /\ [][NextReconcile]_vars

\* ------------------------------------------- the streaming claims

\* The text between the first <think> of s and the first </think> after it.
PairInner(s) ==
  LET i == IndexOf(s, OPEN)
      j == IndexFrom(s, CLOSE, i + Len(OPEN))
  IN  SubSeq(s, i + Len(OPEN), j - 1)

\* s holds a <think> with a </think> after it.
HasPair(s) ==
  /\ Includes(s, OPEN)
  /\ IndexFrom(s, CLOSE, IndexOf(s, OPEN) + Len(OPEN)) > 0

\* Run i has had its whole text delivered, and the text holds a complete pair.
PairDelivered(i) == runs[i].rest = <<>> /\ HasPair(runs[i].message)

\* C1: once every fragment of a text with one complete <think>...</think> pair has
\* been processed, however the text was split, the turn's thought is the enclosed
\* text, trimmed.
C1_ThoughtIsEnclosedText ==
  \A i \in DOMAIN runs :
    PairDelivered(i) =>
      conversation[runs[i].turn].thought = Some(Trim(PairInner(runs[i].message)))

\* C2: once every fragment of a text with one complete pair has been processed,
\* however the text was split, the turn's content holds neither marker nor the
\* enclosed text.
C2_ContentHasNoTrace ==
  \A i \in DOMAIN runs :
    PairDelivered(i) =>
      LET content == conversation[runs[i].turn].content
      IN  /\ ~Includes(content, OPEN)
          /\ ~Includes(content, CLOSE)
          /\ ~Includes(content, Trim(PairInner(runs[i].message)))

\* C2's case: a text with a pair was delivered in fragments that cut or shared a
\* marker (no thought was published), and the content is the text around the pair.
C2_Witness ==
  \E i \in DOMAIN runs :
    /\ PairDelivered(i)
    /\ ~runs[i].scripted
    /\ conversation[runs[i].turn].thought = None
    /\ conversation[runs[i].turn].content = <<"x", "w">>

\* C3: after the fragments "Hello ", "<thi", "nk>planning</thin", "k> world" the
\* turn's content is "Hello  world" and its thought is "planning".
C3_ExampleYieldsContentAndThought ==
  \A i \in DOMAIN runs :
    (runs[i].scripted /\ runs[i].plan = <<>> /\ ~runs[i].interrupted) =>
      /\ conversation[runs[i].turn].content = Trim(Hello \o World)
      /\ conversation[runs[i].turn].thought = Some(Planning)

\* C4 as stated: when a stopGeneration call completes, the last turn's content is
\* what was published when the call was made, followed by the notice.
C4_ContentAtInvocationThenNotice ==
  [][Len(stops') < Len(stops) =>
       conversation'[Len(conversation')].content = Head(stops).published \o STOP_NOTICE]_vars

\* C4, amended: when stopCompletion resolves, stopGeneration appends the notice to
\* the content the last (assistant) turn holds at that moment, which starts with
\* the content published for every token delivered so far, those that arrived
\* after the call was made included; nothing else of the conversation changes.
C4_StopAppendsNotice ==
  [][Len(stops') < Len(stops) =>
       LET n == Len(conversation)
           run == runs[Len(runs)]
       IN  /\ Len(conversation') = n
           /\ \A j \in 1..(n - 1) : conversation'[j] = conversation[j]
           /\ conversation[n].role = "assistant"
           /\ conversation'[n].content = conversation[n].content \o STOP_NOTICE
           /\ conversation'[n].thought = conversation[n].thought
           /\ IsPrefix(VisibleContent(run.message), conversation'[n].content)
           /\ IsSuffix(STOP_NOTICE, conversation'[n].content)]_vars

\* C4's case: a stop has completed after tokens were delivered, and the content is
\* the published text followed by the notice.
C4_Witness ==
  \E i \in DOMAIN runs :
    /\ stops = <<>>
    /\ runs[i].interrupted
    /\ runs[i].message # <<>>
    /\ VisibleContent(runs[i].message) # <<>>
    /\ conversation[runs[i].turn].content = VisibleContent(runs[i].message) \o STOP_NOTICE

\* ------------------------------------------------ the engine claims

\* C5: in every reachable state at most one engine context is being initialised or
\* initialised and not yet released, whatever the sequence of loadModel calls.
C5_AtMostOneContext == Cardinality(engineLive \cup engineIniting) <= 1

\* ------------------------------------------------- the store claims

\* The .gguf files of the document directory.
GgufOnDisk == Range(SelectSeq(ReadDir, EndsWithGguf))

\* The mapping the load effect would make of the persisted file.
Persisted == IF metaFile = None THEN <<>> ELSE Parse(metaFile[1])

\* C6: checkDownloadedModels run on a later start, on the .gguf files it has listed
\* and a mapping that already holds a record for each of them, leaves the mapping
\* as it was.
C6_ReconciliationIdempotent ==
  [][(/\ boot > 1
      /\ checkEffect.pc # "done" /\ checkEffect'.pc = "done"
      /\ GgufOnDisk = Range(downloadedModels)
      /\ \A f \in GgufOnDisk : FindIndex(modelMetadata, f) > 0)
     => modelMetadata' = modelMetadata]_vars

\* C7: in every reachable state no two records of modelMetadata have the same
\* filename.
C7_FilenamesUnique ==
  \A i, j \in DOMAIN modelMetadata :
    modelMetadata[i].filename = modelMetadata[j].filename => i = j

\* C8: once the startup effects are over and no write is under way, the load effect
\* run on the persisted file yields the in-memory mapping, the empty mapping
\* included.
C8_LoadOfSaveIsIdentity ==
  (loadEffect = "done" /\ checkEffect.pc = "done" /\ pendingWrites = <<>>)
    => Persisted = modelMetadata

\* C9: handleDownloadModel called for a file that exists at the destination path
\* calls no downloadModel and reports no progress.
C9_ExistingFileNoTransfer ==
  download.existed => (~download.transferred /\ ~download.progressed)

\* C9, amended: handleDownloadModel called for a file that exists at the
\* destination path, whose loadModel returns true, has returned without calling
\* downloadModel and with no progress reported.
C9_LoadedExistingFileNoTransfer ==
  (download.existed /\ download.reloaded)
    => (download.pc = "done" /\ ~download.transferred /\ ~download.progressed
        /\ progress = 0 /\ ~isDownloading)

C9_Witness ==
  download.pc = "done" /\ download.existed /\ download.reloaded /\ download.loaded

\* handleDownloadModel has found its file at the destination path and run the
\* updater of App.tsx 336-346.
FoundExisting ==
  download.pc \in {"idle", "done"} /\ download'.pc = "loading" /\ download'.existed

\* C10: handleDownloadModel called for an existing file of size S, the mapping
\* holding no size for it, leaves in the mapping a record of the file with size S.
C10_ExistingFileGetsSizedRecord ==
  [][(FoundExisting /\ \A i \in DOMAIN modelMetadata :
                         modelMetadata[i].filename = download'.file
                           => modelMetadata[i].size = None)
     => \E i \in DOMAIN modelMetadata' :
          /\ modelMetadata'[i].filename = download'.file
          /\ modelMetadata'[i].size = Some(disk[download'.file])]_vars

\* C10, amended: handleDownloadModel called for an existing file of size S, the
\* mapping holding a record of it with no size, sets the size of that record to S.
C10_SizeBackfilledIntoRecord ==
  [][(FoundExisting /\ Sizeless(modelMetadata, download'.file))
     => modelMetadata'[FindIndex(modelMetadata, download'.file)].size
          = Some(disk[download'.file])]_vars

C10_Witness ==
  /\ download.pc = "loading" /\ download.existed /\ download.sizeless
  /\ \E i \in DOMAIN modelMetadata :
       /\ modelMetadata[i].filename = download.file
       /\ modelMetadata[i].size = Some(disk[download.file])

\* checkDownloadedModels appends its records: the stats have settled.
Reconciled == checkEffect.pc = "stat" /\ checkEffect'.pc = "done"

\* C11: reconciling qwen2-instruct-q4.gguf, a file with a size to report and no
\* record in the mapping, adds one record of it, of format "Qwen2-0.5B-Instruct"
\* and of the size reported.
C11_QwenFileReconciled ==
  [][(/\ Reconciled
      /\ QwenFile \in Range(checkEffect.files)
      /\ QwenFile \in DOMAIN disk
      /\ FindIndex(modelMetadata, QwenFile) = 0)
     => LET i == FindIndex(modelMetadata', QwenFile)
        IN  /\ i > 0
            /\ modelMetadata'[i].format = "Qwen2-0.5B-Instruct"
            /\ modelMetadata'[i].size = Some(disk[QwenFile])
            /\ \A j \in DOMAIN modelMetadata' :
                 modelMetadata'[j].filename = QwenFile => j = i]_vars

C11_Witness ==
  /\ checkEffect.pc = "done"
  /\ QwenFile \in DOMAIN disk
  /\ modelMetadata = <<Metadata(QwenFile, "Qwen2-0.5B-Instruct", boot, Some(disk[QwenFile]))>>
  /\ metaFile = None

\* C12: every change of the mapping by a handler or an effect, the removal of the
\* last record included, starts a write of the whole new mapping to the metadata
\* file.
C12_MutationIsWritten ==
  [][(boot' = boot /\ modelMetadata' # modelMetadata)
     => pendingWrites' = Append(pendingWrites, Stringify(modelMetadata'))]_vars

\* An initLlama begins.
InitBegins == ~(engineIniting' \subseteq engineIniting)

\* The loadModel call whose initLlama begins tested a context that was set.
HeldCallInits ==
  \E i \in DOMAIN loads :
    /\ loads[i].pc = "releasing"
    /\ i \in DOMAIN loads' /\ loads'[i].pc = "initing"

\* C13: when the initLlama of a loadModel call begins, the call having found a
\* context held or another call's initLlama being pending, every earlier session
\* has been released: the new context is the only one initialising or live.
C13_ReleasedBeforeInit ==
  [][(InitBegins /\ (HeldCallInits \/ engineIniting # {}))
     => Cardinality(engineLive' \cup engineIniting') = 1]_vars

\* The initLlama of a loadModel call rejects.
InitRejects ==
  engineIniting' # engineIniting /\ engineIniting' \subseteq engineIniting
    /\ engineLive' = engineLive /\ boot' = boot

\* C14: when initLlama fails inside loadModel, modelLoadError is set, the loading
\* flag is cleared, no engine context is held, and the call is over, so that
\* another one may be made.
C14_FailedLoadLeavesNoContext ==
  [][InitRejects
     => /\ modelLoadError' /\ ~isModelLoading'
        /\ context' = NoContext
        /\ Len(loads') < Len(loads)]_vars

\* ------------------------------------------- the conversation session

\* The most Send presses that start a completion.
MaxSends == 2

\* A one-character answer, which may be preceded by empty fragments.
SessionOutputs == {[text |-> <<"a">>, scripted |-> FALSE, plan |-> <<>>]}

\* A model is loaded and the conversation page shows; the user sends, stops and
\* goes back to the selection page.
NextSession ==
  \/ Len(runs) < MaxSends /\ SendMessage(SessionOutputs)
  \/ \E i \in DOMAIN runs : OnToken(i)
  \/ \E i \in DOMAIN runs : CompletionResolve(i)
  \/ \E i \in DOMAIN runs : CompletionReject(i)
  \/ StopInvoke
  \/ StopResolve
  \/ handleBackToModelSelection
  \/ ReleaseDone

SpecSession == InitChat /\ [][NextSession]_vars

\* "Back to Model Selection" has just been pressed.
WentBack == currentPage = "conversation" /\ currentPage' = "modelSelection" /\ boot' = boot

\* C15: after handleBackToModelSelection the engine holds no context any more,
\* context is null, the conversation is the initial system turn alone and the
\* throughput list is empty.
C15_BackReleasesAndResets ==
  [][WentBack
     => /\ engineLive' = {}
        /\ context' = NoContext
        /\ conversation' = INITIAL_CONVERSATION
        /\ tokensPerSecond' = <<>>]_vars

\* The assistant turns of the conversation whose completion is over.
EndedAssistantTurns ==
  {i \in DOMAIN conversation :
     /\ conversation[i].role = "assistant"
     /\ ~\E r \in DOMAIN runs : runs[r].pc = "streaming" /\ runs[r].turn = i}

\* C16: tokensPerSecond holds one sample for each assistant turn whose generation
\* has ended, so that tokensPerSecond[k] belongs to the k-th assistant turn.
C16_OneSamplePerEndedTurn == Len(tokensPerSecond) = Cardinality(EndedAssistantTurns)

\* The completions in flight: context.completion has been called and has neither
\* resolved nor rejected.
InFlight == {r \in DOMAIN runs : runs[r].pc = "streaming"}

\* C17: at most one completion is in flight at any time.
C17_OneCompletionInFlight == Cardinality(InFlight) <= 1

\* A handleDownloadModel call is between its start and its return.
DownloadActive == download.pc \in {"loading", "transferring"}

\* C18: while a handleDownloadModel call is active isDownloading is true, and
\* while isDownloading is true no download can be started.
C18_OneDownloadAtATime ==
  /\ DownloadActive => isDownloading
  /\ isDownloading => \A file \in Files : ~ENABLED DownloadStart(file)

C18_Witness ==
  /\ DownloadActive /\ isDownloading
  /\ currentPage = "modelSelection" /\ selectedModelFormat # ""
  /\ \E file \in Files : file \notin Range(downloadedModels)

\* A token event of completion r has been handled.
TokenOf(r) == r \in DOMAIN runs' /\ runs'[r].message # runs[r].message

\* C19: a token event of a completion changes no turn of the conversation but the
\* assistant turn this completion appended.
C19_TokenWritesOwnTurn ==
  [][\A r \in DOMAIN runs :
       TokenOf(r)
         => /\ Len(conversation') = Len(conversation)
            /\ \A j \in DOMAIN conversation :
                 j # runs[r].turn => conversation'[j] = conversation[j]]_vars

\* context.completion of run r has rejected.
Rejected(r) == runs[r].pc = "streaming" /\ r \in DOMAIN runs' /\ runs'[r].pc = "rejected"

\* C20: when context.completion fails, the failure is written as text into the
\* conversation, in the assistant turn of the failed completion.
C20_FailureWrittenToConversation ==
  [][\A r \in DOMAIN runs :
       Rejected(r)
         => /\ runs[r].turn \in DOMAIN conversation'
            /\ conversation'[runs[r].turn].content # conversation[runs[r].turn].content]_vars

\* ------------------------------------------------ the download claims

\* The transfer of handleDownloadModel has succeeded and its updaters have run.
Transferred == download.pc = "transferring" /\ download'.pc = "loading"

\* The records of a mapping that are not of `file`.
Others(metadata, file) == SelectSeq(metadata, LAMBDA m : m.filename # file)

\* C21: after a successful transfer of a file the mapping holds exactly one record
\* of it, of the selected format and of the measured size, the other records are
\* as they were, and the file is in downloadedModels exactly once.
C21_TransferUpsertsOneRecord ==
  [][Transferred
     => LET file == download.file
            mine == {i \in DOMAIN modelMetadata' : modelMetadata'[i].filename = file}
        IN  /\ Cardinality(mine) = 1
            /\ \A i \in mine :
                 /\ modelMetadata'[i].format = download.format
                 /\ modelMetadata'[i].size = Some(disk'[file])
            /\ Others(modelMetadata', file) = Others(modelMetadata, file)
            /\ Cardinality({i \in DOMAIN downloadedModels' : downloadedModels'[i] = file}) = 1]_vars

\* The mapping holds a record of `file`.
HasRecord(metadata, file) == \E i \in DOMAIN metadata : metadata[i].filename = file

\* C22: a confirmed deleteModel(f) whose unlink succeeds leaves no record of f in the
\* mapping and f out of downloadedModels; when the file does not exist or the unlink
\* fails, the mapping and downloadedModels are as they were.
C22_DeleteRemovesOrLeaves ==
  [][\A f \in Files :
       /\ (f \in DOMAIN disk /\ f \notin DOMAIN disk')
            => /\ ~HasRecord(modelMetadata', f)
               /\ f \notin Range(downloadedModels')
       /\ \A unlinked \in BOOLEAN :
            (deleteModel(f, unlinked) /\ ~(f \in DOMAIN disk /\ unlinked))
              => UNCHANGED <<modelMetadata, downloadedModels>>]_vars

\* The one file of the first start has been deleted, with the record it had, which
\* the metadata file still holds.
C22_Witness ==
  /\ boot = 1
  /\ metaFile # None
  /\ checkEffect.pc = "done"
  /\ QwenFile \notin DOMAIN disk
  /\ ~HasRecord(modelMetadata, QwenFile)
  /\ QwenFile \notin Range(downloadedModels)

\* ------------------------------------------------- the catalogue claims

\* C23: when the catalogue's query fails in handleFormatSelection, the list of
\* available files becomes the filenames of the records of the current mapping
\* whose format is the selected one.
C23_OfflineListsCurrentMapping ==
  [][\A i \in DOMAIN fetches :
       CatalogRejected(i)
         => availableGGUFs' = LocalFiles(modelMetadata, fetches[i].format)]_vars

\* ------------------------------------------------ the inference claims

\* A character in lower case.
Lower(c) ==
  LET upper == <<"A", "B", "C", "D", "E", "F", "G", "H", "I", "J", "K", "L", "M",
                 "N", "O", "P", "Q", "R", "S", "T", "U", "V", "W", "X", "Y", "Z">>
      lower == <<"a", "b", "c", "d", "e", "f", "g", "h", "i", "j", "k", "l", "m",
                 "n", "o", "p", "q", "r", "s", "t", "u", "v", "w", "x", "y", "z">>
  IN  IF \E i \in DOMAIN upper : upper[i] = c
        THEN lower[CHOOSE i \in DOMAIN upper : upper[i] = c]
        ELSE c

\* A text in lower case.
LowerText(s) == [i \in DOMAIN s |-> Lower(s[i])]

\* The format of the first family whose name occurs in the file name in any letter
\* casing, the families in the order of the mapping and named as reconciliation
\* names them; Unknown when none occurs.
FormatIgnoringCase(filename) ==
  LET has(pat) == Includes(LowerText(Spell(filename)), pat)
  IN  IF has(<<"l", "l", "a", "m", "a", "-", "3", ".", "2">>) THEN "Llama-3.2-1B-Instruct"
      ELSE IF has(<<"q", "w", "e", "n", "2">>) THEN "Qwen2-0.5B-Instruct"
      ELSE IF has(<<"d", "e", "e", "p", "s", "e", "e", "k">>)
        THEN "DeepSeek-R1-Distill-Qwen-1.5B"
      ELSE IF has(<<"s", "m", "o", "l", "l", "m">>) THEN "SmolLM2-1.7B-Instruct"
      ELSE "Unknown"

\* C24: the format of a record made by reconciliation is the family whose name
\* occurs in the file name in any letter casing, and Unknown exactly when no family
\* name occurs.
C24_FormatInferredIgnoringCase ==
  \A i \in DOMAIN modelMetadata :
    modelMetadata[i].format = FormatIgnoringCase(modelMetadata[i].filename)

\* ------------------------------------------------ the failed transfer claims

\* `f` is the partial file a failed transfer has left: bytes of it are on disk, and
\* no transfer of it is under way.
PartialLeft(f) ==
  /\ f \in DOMAIN disk
  /\ disk[f] = PartialSize(f)
  /\ ~(download.pc = "transferring" /\ download.file = f)

\* The loadModel calls of `f` under way.
LoadsOf(calls, f) == {i \in DOMAIN calls : calls[i].file = f}

\* C25: a partial file a failed transfer has left is not treated as available until
\* a transfer of it succeeds: while it stays partial, through later operations and
\* restarts, it gets no record, is not put in downloadedModels and is not loaded.
C25_PartialFileNotAvailable ==
  [][\A f \in Files :
       (PartialLeft(f) /\ f \in DOMAIN disk' /\ disk'[f] = PartialSize(f))
         => /\ ~HasRecord(modelMetadata, f) => ~HasRecord(modelMetadata', f)
            /\ f \notin Range(downloadedModels) => f \notin Range(downloadedModels')
            /\ Cardinality(LoadsOf(loads', f)) <= Cardinality(LoadsOf(loads, f))]_vars

\* C26: when the byte transfer of handleDownloadModel fails, the failure is shown
\* with its cause, the mapping and downloadedModels stay as they are, no loadModel
\* call is made, and isDownloading is set to false.
C26_FailedTransferOnlyAlerts ==
  [][\A errorMessage \in Causes :
       TransferFail(errorMessage)
         => /\ download'.alert = Some(<<"Error", "Download failed: ", errorMessage>>)
            /\ UNCHANGED <<modelMetadata, downloadedModels>>
            /\ loads' = loads
            /\ ~download'.loaded
            /\ isDownloading' = FALSE]_vars

\* A transfer has failed: its alert shows and the download is over.
C26_Witness ==
  /\ download.pc = "done"
  /\ download.transferred
  /\ download.alert # None
  /\ ~isDownloading

\* -------------------------------------------------- the marker claims

\* The text of s after its first <think>.
AfterOpen(s) == Drop(s, IndexOf(s, OPEN) + Len(OPEN) - 1)

\* The whole text of run i holds a <think> and no </think>, and the <think> and
\* text after it have been delivered.
UnclosedDelivered(i) ==
  LET whole == runs[i].message \o runs[i].rest
  IN  /\ Includes(whole, OPEN)
      /\ ~Includes(whole, CLOSE)
      /\ Includes(runs[i].message, OPEN)
      /\ AfterOpen(runs[i].message) # <<>>

\* C27: when a stream holds a <think> and ends with no </think> after it, the text
\* after the <think> is not published as the turn's thought and is not in the turn's
\* content, after any fragment and at the end of the stream.
C27_UnclosedThinkStaysHidden ==
  \A i \in DOMAIN runs :
    UnclosedDelivered(i) =>
      /\ conversation[runs[i].turn].thought = None
      /\ ~Includes(conversation[runs[i].turn].content, AfterOpen(runs[i].message))

\* The nonempty proper prefixes of the two markers.
MarkerPrefixes ==
  {Take(m, k) : m \in {OPEN, CLOSE}, k \in 1..(Len(OPEN) - 1)}
    \cup {Take(CLOSE, Len(CLOSE) - 1)}

\* C28: after each fragment, an end of the stream so far that is a proper prefix of
\* a marker (such as "<thi") is held back: the content published for that fragment
\* does not end with it, and neither does the thought.
C28_MarkerPrefixHeldBack ==
  \A i \in DOMAIN runs :
    \A p \in MarkerPrefixes :
      (runs[i].pc = "streaming" /\ IsSuffix(p, runs[i].message)) =>
        /\ ~IsSuffix(p, conversation[runs[i].turn].content)
        /\ conversation[runs[i].turn].thought # None
             => ~IsSuffix(p, conversation[runs[i].turn].thought[1])

\* The text between the last <think> of s that has a </think> after it, and that
\* </think>.
RECURSIVE LastPairInner(_)
LastPairInner(s) ==
  LET i == IndexOf(s, OPEN)
      j == IndexFrom(s, CLOSE, i + Len(OPEN))
      rest == Drop(s, j + Len(CLOSE) - 1)
  IN  IF HasPair(rest) THEN LastPairInner(rest) ELSE PairInner(s)

\* The whole text of run i has been delivered, and it holds more than one pair.
PairsDelivered(i) ==
  /\ runs[i].rest = <<>>
  /\ HasPair(runs[i].message)
  /\ LastPairInner(runs[i].message) # PairInner(runs[i].message)

\* C29: when a stream holds several <think>...</think> pairs, at the end of the
\* stream the turn's thought is the trimmed text of the last closed pair alone.
C29_LastPairIsTheThought ==
  \A i \in DOMAIN runs :
    PairsDelivered(i) =>
      conversation[runs[i].turn].thought = Some(Trim(LastPairInner(runs[i].message)))

\* The text of s before its first occurrence of the marker m.
BeforeMarker(s, m) == Take(s, IndexOf(s, m) - 1)

\* C30: for a fragment that holds a whole marker beside other text: the text before
\* <think> in the fragment is in the content and not in the reasoning text; the text
\* before </think> in the fragment is part of the thought published; a fragment
\* with both markers gives the text between them as the thought.
C30_TextBesideMarkers ==
  [][\A i \in DOMAIN runs :
       (Len(runs') = Len(runs) /\ runs'[i].message # runs[i].message) =>
         LET token == Drop(runs'[i].message, Len(runs[i].message))
             turn == conversation'[runs[i].turn]
         IN  /\ (Includes(token, OPEN) /\ ~Includes(token, CLOSE)
                   /\ BeforeMarker(token, OPEN) # <<>>)
                  => /\ runs'[i].thought = AfterOpen(token)
                     /\ Includes(turn.content, BeforeMarker(token, OPEN))
             /\ (Includes(token, CLOSE) /\ ~Includes(token, OPEN) /\ runs[i].inThink
                   /\ BeforeMarker(token, CLOSE) # <<>>)
                  => turn.thought = Some(Trim(runs[i].thought \o BeforeMarker(token, CLOSE)))
             /\ HasPair(token)
                  => turn.thought = Some(Trim(LastPairInner(token)))]_vars

\* ------------------------------------------------ the conversation claims

\* C31: in every reachable state the first turn of the conversation is the system
\* turn with its original content, also when handleBackToModelSelection resets the
\* conversation while a completion still delivers tokens.
C31_FirstTurnIsSystemTurn ==
  /\ Len(conversation) >= 1
  /\ conversation[1] = INITIAL_CONVERSATION[1]

\* C32: when the engine delivers a token after stopGeneration has appended its
\* notice, the cancelled turn's content still begins with the text it held before
\* the notice and still ends with the notice.
C32_NoticeSurvivesLateTokens ==
  [][\A r \in DOMAIN runs :
       (/\ TokenOf(r)
        /\ runs[r].interrupted
        /\ IsSuffix(STOP_NOTICE, conversation[runs[r].turn].content))
         => LET before == conversation[runs[r].turn].content
                published == Take(before, Len(before) - Len(STOP_NOTICE))
                after == conversation'[runs[r].turn].content
            IN  /\ IsPrefix(published, after)
                /\ IsSuffix(STOP_NOTICE, after)]_vars

\* ------------------------------------------------- the startup claims

\* Both effects of the start are over.
StartupOver == loadEffect = "done" /\ checkEffect.pc = "done"

\* The records of `file` in a mapping.
RecordsOf(metadata, file) == {i \in DOMAIN metadata : metadata[i].filename = file}

\* C33: once the load of the metadata file and the reconciliation have both
\* finished, in whichever order, every .gguf file of the document directory has
\* exactly one record in the mapping.
C33_OneRecordPerFileAfterStartup ==
  [][(~StartupOver /\ StartupOver' /\ boot' = boot)
       => \A f \in GgufOnDisk' : Cardinality(RecordsOf(modelMetadata', f)) = 1]_vars

\* The record of the persisted file for `f`, as the load effect reads it, is in the
\* mapping `metadata` with its format and downloadDate.
KeepsProvenance(metadata, m) ==
  \E i \in DOMAIN metadata :
    /\ metadata[i].filename = m.filename
    /\ metadata[i].format = m.format
    /\ metadata[i].downloadDate = m.downloadDate

\* C34: the start loses no persisted provenance: while the start's effects and
\* writes go on, each step keeps, in the persisted file, the format and downloadDate
\* of every record of it whose file is on disk, and once the effects and writes
\* are over the mapping holds them too.
C34_StartupKeepsProvenance ==
  [][(boot' = boot)
       => \A i \in DOMAIN Persisted :
            Persisted[i].filename \in GgufOnDisk
              => /\ KeepsProvenance(Persisted', Persisted[i])
                 /\ (StartupOver' /\ pendingWrites' = <<>>)
                      => KeepsProvenance(modelMetadata', Persisted[i])]_vars

\* ------------------------------------------------- the loading claims

\* C35: isModelLoading is true in every state in which a loadModel call is between
\* its start and the end of its initLlama, and it is false once no call is.
C35_LoadingWhileLoadPending ==
  /\ loads # <<>> => isModelLoading
  /\ loads = <<>> => ~isModelLoading

\* ------------------------------------------- the fragmentation claims

\* C36: the content published for the assistant turn after a fragment depends on
\* the concatenation of the fragments received so far alone, not on where they were
\* cut: it is one function of that concatenation, so two fragment sequences with the
\* same concatenation give the same content.
C36_ContentIsFunctionOfText ==
  [][\A r \in DOMAIN runs :
       TokenOf(r) =>
         conversation'[runs[r].turn].content = Trim(StripThinkBlocks(runs'[r].message))]_vars

\* A text with a pair has been delivered whole in fragments that cut or shared a
\* marker, so that no thought was published, and the content is that of the text.
C36_Witness ==
  \E i \in DOMAIN runs :
    /\ runs[i].message = SharedText
    /\ runs[i].rest = <<>>
    /\ conversation[runs[i].turn].thought = None
    /\ conversation[runs[i].turn].content = <<"x", "w">>

====
